---- MODULE Spec2Model ----
(***************************************************************************)
(* Model of the deposit program (program/src): the instruction codec       *)
(* (instruction.rs), the dispatcher (entrypoint.rs) and the processor      *)
(* (processor.rs), run inside the host's atomic instruction context.       *)
(*                                                                         *)
(* A byte of the model holds ByteMod values and a u64 is eight such bytes, *)
(* so that U64Max = ByteMod^8 - 1 keeps the code's little-endian layout,   *)
(* its 8-byte slicing and its overflow checks at a size TLC can explore.   *)
(***************************************************************************)
EXTENDS Integers, Sequences, FiniteSets, TLC

\* ---------------------------------------------------------------- bounds
ByteMod == 4

SmallAmount == 2

MaxShort == 2

MaxWallets == 52

\* the client is tried with every amount up to MaxWire, and some large ones
MaxWire == 40

\* ------------------------------------------------------------- constants
U64Bytes == 8

RECURSIVE Pow(_, _)
Pow(b, e) == IF e = 0 THEN 1 ELSE b * Pow(b, e - 1)

U64Max == Pow(ByteMod, U64Bytes) - 1

\* ------------------------------------------------------------ identities
Users == {"u1", "u2", "rich"}

Slots == {"slot", "foreign"}

Ids == Users \cup Slots

ProgramId == "program"

SystemProgramId == "system"

\* --------------------------------------------------------------- helpers
RECURSIVE LeDigits(_, _)
LeDigits(v, n) ==
    IF n = 0 THEN <<>> ELSE <<v % ByteMod>> \o LeDigits(v \div ByteMod, n - 1)

\* u64::to_le_bytes: least significant byte first
to_le_bytes(v) == LeDigits(v, U64Bytes)

RECURSIVE BeSum(_, _)
BeSum(b, i) == IF i < 1 THEN 0 ELSE b[i] + ByteMod * BeSum(b, i - 1)

\* (variant: the most significant byte comes first, as from_be_bytes reads)
from_be_bytes(b) == BeSum(b, U64Bytes)

RECURSIVE LeSum(_, _)
LeSum(b, i) == IF i > U64Bytes THEN 0 ELSE b[i] + ByteMod * LeSum(b, i + 1)

\* u64::from_le_bytes over an 8-byte array
from_le_bytes(b) == LeSum(b, 1)

\* (variant: the buffer is replaced by the 8 bytes, dropping what follows)
copy_from_slice_truncating(data, bytes) == bytes

\* data[0..8].copy_from_slice(bytes); the caller has checked Len(data) >= 8
copy_from_slice(data, bytes) ==
    [i \in 1..Len(data) |-> IF i <= U64Bytes THEN bytes[i] ELSE data[i]]

\* u64::checked_add / u64::checked_sub: -1 stands for None
\* (variant: the sum wraps modulo 2^64, as wrapping_add does)
checked_add_wrapping(a, b) == (a + b) % (U64Max + 1)

checked_add(a, b) == IF a + b > U64Max THEN -1 ELSE a + b

checked_sub(a, b) == IF a < b THEN -1 ELSE a - b

\* (variant: the stored balance is not debited)
withdraw_new_balance_stale(current_balance, amount) == current_balance

\* "let new_balance = current_balance.checked_sub(amount)"
withdraw_new_balance(current_balance, amount) ==
    checked_sub(current_balance, amount)

\* the stored balance read back from an account's buffer (check_balance)
stored_balance(acc) == from_le_bytes(SubSeq(acc.data, 1, U64Bytes))

\* outcome of one run of the program: result code, working accounts, trace
Outcome(r, w, ev) == [res |-> r, w |-> w, ev |-> ev]

\* ------------------------------------------------------------ the codec
\* (variant: a payload of exactly 8 bytes is refused)
payload_too_short_inclusive(rest) == Len(rest) <= U64Bytes

\* "if rest.len() < 8"
payload_too_short(rest) == Len(rest) < U64Bytes

\* DepositInstruction::unpack
unpack(input) ==
    IF Len(input) = 0 THEN [err |-> "InvalidInstructionData"]
    ELSE LET tag == Head(input)
             rest == Tail(input)
         IN CASE tag = 0 -> [err |-> "none", op |-> "Initialize", amount |-> 0]
              [] tag = 1 -> [err |-> "none", op |-> "Deposit", amount |-> 0]
              [] tag = 2 ->
                    IF payload_too_short(rest)
                    THEN [err |-> "InvalidInstructionData"]
                    ELSE [err |-> "none", op |-> "Withdraw",
                          amount |-> from_le_bytes(SubSeq(rest, 1, U64Bytes))]
              [] OTHER -> [err |-> "InvalidInstructionData"]

\* ------------------------------------------------------ the host context
\* next_account_info fails once the slice is exhausted
not_enough_accounts(accs, n) == Len(accs) < n

\* invoke(system_instruction::transfer(from, to, amount), ...): the system
\* program moves lamports from a signing, data-less, system-owned account
system_transfer(w, from, to, amount, signer) ==
    IF ~signer THEN [err |-> "PrivilegeEscalation", w |-> w]
    ELSE IF Len(w[from].data) > 0 THEN [err |-> "InvalidArgument", w |-> w]
    ELSE IF w[from].owner # SystemProgramId
         THEN [err |-> "ExternalAccountLamportSpend", w |-> w]
    ELSE IF amount > w[from].lamports THEN [err |-> "Custom(1)", w |-> w]
    ELSE LET debited == [w EXCEPT ![from].lamports = @ - amount]
         IN IF debited[to].lamports + amount > U64Max
            THEN [err |-> "ArithmeticOverflow", w |-> w]
            ELSE [err |-> "none",
                  w |-> [debited EXCEPT ![to].lamports = @ + amount]]

\* -------------------------------------------------------- the processor
\* (variant: a buffer of up to 8 bytes counts as not yet initialized)
already_initialized_over8(acc) == Len(acc.data) > U64Bytes

\* "Check if the account is already initialized"
already_initialized(acc) == Len(acc.data) > 0

\* (variant: the ownership check is left out)
wrong_owner_unchecked(acc) == FALSE

\* "Verify account ownership"
wrong_owner(acc) == acc.owner # ProgramId

\* (variant: one lamport is kept back from the deposit)
deposit_amount_keep_one(user_acc) ==
    IF user_acc.lamports > 0 THEN user_acc.lamports - 1 ELSE 0

\* "Get the amount of lamports to deposit"
deposit_amount(user_acc) == user_acc.lamports

\* (variant: a withdrawal of the whole balance is refused)
insufficient_funds_inclusive(amount, current_balance) ==
    amount >= current_balance

\* (variant: the comparison is off by one)
insufficient_funds_off_by_one(amount, current_balance) ==
    amount > current_balance + 1

\* "Check if the user has enough balance"
insufficient_funds(amount, current_balance) == amount > current_balance

\* (variant: the signer check is inverted)
missing_signature_inverted(signer) == signer

\* (variant: the signer check is left out)
missing_signature_unchecked(signer) == FALSE

\* "Check if the requester is the owner"
missing_signature(signer) == ~signer

\* (variant: the result of invoke is dropped instead of propagated by `?`)
transfer_failed_ignored(t) == FALSE

\* invoke(..)?: a failed host transfer ends the Deposit with its error
transfer_failed(t) == t.err # "none"

\* data[0..8] panics when the buffer is shorter than 8 bytes
slice_out_of_range(acc) == Len(acc.data) < U64Bytes

\* Processor::initialize_account
initialize_account(st, accs, signer) ==
    IF not_enough_accounts(accs, 3)
    THEN Outcome("NotEnoughAccountKeys", st, <<>>)
    ELSE LET target == accs[2] IN
      IF already_initialized(st[target])
      THEN Outcome("AccountAlreadyInitialized", st, <<"check_empty">>)
      ELSE IF wrong_owner(st[target])
      THEN Outcome("IncorrectProgramId", st, <<"check_empty", "check_owner">>)
      ELSE IF slice_out_of_range(st[target])
      THEN Outcome("Panic", st, <<"check_empty", "check_owner">>)
      ELSE Outcome("Ok",
                   [st EXCEPT ![target].data = copy_from_slice(@, to_le_bytes(0))],
                   <<"check_empty", "check_owner", "write_balance">>)

\* (variant: the host transfer is requested before the ownership check)
deposit_transfer_first(st, accs, signer) ==
    IF not_enough_accounts(accs, 3)
    THEN Outcome("NotEnoughAccountKeys", st, <<>>)
    ELSE LET user == accs[1]
             target == accs[2]
             amount == deposit_amount(st[user])
             t == system_transfer(st, user, target, amount, signer)
         IN
      IF transfer_failed(t)
      THEN Outcome(t.err, t.w, <<"transfer">>)
      ELSE IF wrong_owner(t.w[target])
      THEN Outcome("IncorrectProgramId", t.w, <<"transfer", "check_owner">>)
      ELSE IF slice_out_of_range(t.w[target])
      THEN Outcome("Panic", t.w, <<"transfer", "check_owner">>)
      ELSE LET current_balance == stored_balance(t.w[target])
               new_balance == checked_add(current_balance, amount)
           IN
        IF new_balance = -1
        THEN Outcome("ArithmeticOverflow", t.w,
                     <<"transfer", "check_owner", "read_balance">>)
        ELSE Outcome("Ok",
               [t.w EXCEPT ![target].data =
                              copy_from_slice(@, to_le_bytes(new_balance))],
               <<"transfer", "check_owner", "read_balance", "write_balance">>)

\* Processor::deposit
deposit(st, accs, signer) ==
    IF not_enough_accounts(accs, 3)
    THEN Outcome("NotEnoughAccountKeys", st, <<>>)
    ELSE LET user == accs[1]
             target == accs[2]
         IN
      IF wrong_owner(st[target])
      THEN Outcome("IncorrectProgramId", st, <<"check_owner">>)
      ELSE LET amount == deposit_amount(st[user])
               t == system_transfer(st, user, target, amount, signer)
           IN
        IF transfer_failed(t)
        THEN Outcome(t.err, t.w, <<"check_owner", "transfer">>)
        ELSE IF slice_out_of_range(t.w[target])
        THEN Outcome("Panic", t.w, <<"check_owner", "transfer">>)
        ELSE LET current_balance == stored_balance(t.w[target])
                 new_balance == checked_add(current_balance, amount)
             IN
          IF new_balance = -1
          THEN Outcome("ArithmeticOverflow", t.w,
                       <<"check_owner", "transfer", "read_balance">>)
          ELSE Outcome("Ok",
                 [t.w EXCEPT ![target].data =
                                copy_from_slice(@, to_le_bytes(new_balance))],
                 <<"check_owner", "transfer", "read_balance", "write_balance">>)

\* (variant: the signature is checked before the owner)
withdraw_signer_first(st, accs, signer, amount) ==
    IF not_enough_accounts(accs, 2)
    THEN Outcome("NotEnoughAccountKeys", st, <<>>)
    ELSE LET user == accs[1]
             target == accs[2]
         IN
      IF missing_signature(signer)
      THEN Outcome("MissingRequiredSignature", st, <<"check_signer">>)
      ELSE IF wrong_owner(st[target])
      THEN Outcome("IncorrectProgramId", st,
                   <<"check_signer", "check_owner">>)
      ELSE IF slice_out_of_range(st[target])
      THEN Outcome("Panic", st, <<"check_owner", "check_signer">>)
      ELSE LET current_balance == stored_balance(st[target])
               pre == <<"check_owner", "check_signer", "read_balance",
                        "check_funds">>
           IN
        IF insufficient_funds(amount, current_balance)
        THEN Outcome("InsufficientFunds", st, pre)
        ELSE LET sub == checked_sub(st[target].lamports, amount) IN
          IF sub = -1
          THEN Outcome("ArithmeticOverflow", st, pre)
          ELSE LET w1 == [st EXCEPT ![target].lamports = sub]
                   add == checked_add(w1[user].lamports, amount)
               IN
            IF add = -1
            THEN Outcome("ArithmeticOverflow", w1, Append(pre, "sub_lamports"))
            ELSE LET w2 == [w1 EXCEPT ![user].lamports = add]
                     new_balance == withdraw_new_balance(current_balance, amount)
                     ev == pre \o <<"sub_lamports", "add_lamports">>
                 IN
              IF new_balance = -1
              THEN Outcome("ArithmeticOverflow", w2, ev)
              ELSE Outcome("Ok",
                     [w2 EXCEPT ![target].data =
                                  copy_from_slice(@, to_le_bytes(new_balance))],
                     Append(ev, "write_balance"))

\* Processor::withdraw
withdraw(st, accs, signer, amount) ==
    IF not_enough_accounts(accs, 2)
    THEN Outcome("NotEnoughAccountKeys", st, <<>>)
    ELSE LET user == accs[1]
             target == accs[2]
         IN
      IF wrong_owner(st[target])
      THEN Outcome("IncorrectProgramId", st, <<"check_owner">>)
      ELSE IF missing_signature(signer)
      THEN Outcome("MissingRequiredSignature", st,
                   <<"check_owner", "check_signer">>)
      ELSE IF slice_out_of_range(st[target])
      THEN Outcome("Panic", st, <<"check_owner", "check_signer">>)
      ELSE LET current_balance == stored_balance(st[target])
               pre == <<"check_owner", "check_signer", "read_balance",
                        "check_funds">>
           IN
        IF insufficient_funds(amount, current_balance)
        THEN Outcome("InsufficientFunds", st, pre)
        ELSE LET sub == checked_sub(st[target].lamports, amount) IN
          IF sub = -1
          THEN Outcome("ArithmeticOverflow", st, pre)
          ELSE LET w1 == [st EXCEPT ![target].lamports = sub]
                   add == checked_add(w1[user].lamports, amount)
               IN
            IF add = -1
            THEN Outcome("ArithmeticOverflow", w1, Append(pre, "sub_lamports"))
            ELSE LET w2 == [w1 EXCEPT ![user].lamports = add]
                     new_balance == withdraw_new_balance(current_balance, amount)
                     ev == pre \o <<"sub_lamports", "add_lamports">>
                 IN
              IF new_balance = -1
              THEN Outcome("ArithmeticOverflow", w2, ev)
              ELSE Outcome("Ok",
                     [w2 EXCEPT ![target].data =
                                  copy_from_slice(@, to_le_bytes(new_balance))],
                     Append(ev, "write_balance"))

\* ------------------------------------------------------- the dispatcher
\* process_instruction
process_instruction(st, accs, signer, input) ==
    LET instruction == unpack(input) IN
    IF instruction.err # "none"
    THEN Outcome(instruction.err, st, <<"decode">>)
    ELSE LET run ==
               CASE instruction.op = "Initialize" ->
                        initialize_account(st, accs, signer)
                 [] instruction.op = "Deposit" -> deposit(st, accs, signer)
                 [] OTHER -> withdraw(st, accs, signer, instruction.amount)
         IN Outcome(run.res, run.w, <<"decode">> \o run.ev)

\* ------------------------------------------------------------ the state
\* accounts: the committed accounts; genesis: the accounts as first allocated;
\* pre, call, out: the accounts before, the inputs of and the outcome of the
\* latest instruction; prior: the accounts before the Deposit that the latest
\* instruction, a Withdraw of the deposited amount, undoes
VARIABLES accounts, genesis, pre, call, out, prior

\* net: for each target, the amounts of the successful Deposits less the
\* amounts of the successful Withdraws so far
VARIABLES net

\* buf: instruction bytes handed to the codec; decoded: what unpack returned
VARIABLES buf, decoded

\* sent: the instruction the client encoded into buf, if the client built buf
VARIABLES sent

\* get_balances and batch_transfer: wallets (or pairs of wallets) still to
\* take, the futures pushed and not yet collected, the balances collected,
\* the list returned or written to balances.yaml, the position in the
\* function, and the number of entries read from the file
VARIABLES wallets, handlers, balances, output, gb_pc, listed

programVars == <<accounts, genesis, pre, call, out, prior, net>>

codecVars == <<buf, decoded, sent>>

clientVars == <<wallets, handlers, balances, output, gb_pc, listed>>

vars == <<programVars, codecVars, clientVars>>

\* an account as the host hands it to the program
Account(l, d, o) == [lamports |-> l, data |-> d, owner |-> o]

\* the slot as the caller allocated it: an empty buffer, a buffer shorter
\* than a balance, a zeroed balance, a zeroed balance followed by a reserved
\* byte, each holding one lamport; and a buffer whose balance is the largest
\* u64, holding no lamports
SlotGenesis ==
    { Account(1, <<>>, ProgramId),
      Account(1, <<0, 0, 0, 0>>, ProgramId),
      Account(1, to_le_bytes(0), ProgramId),
      Account(1, to_le_bytes(0) \o <<1>>, ProgramId),
      Account(0, to_le_bytes(U64Max), ProgramId) }

\* account lists of an instruction: requester, target, system program
AccountLists ==
    { <<>>, <<"u1">>, <<"u1", "slot">>,
      <<"u1", "slot", "sys">>, <<"u2", "slot", "sys">>,
      <<"rich", "slot", "sys">>, <<"slot", "slot", "sys">>,
      <<"u1", "foreign", "sys">>, <<"u1", "u2", "sys">> }

Amounts == {0, 1, SmallAmount, U64Max}

\* (variant: the client writes the amount most significant byte first)
withdraw_bytes_big_endian(amount) ==
    <<2>> \o [i \in 1..U64Bytes |-> to_le_bytes(amount)[U64Bytes + 1 - i]]

\* the bytes the client sends for Withdraw (withdraw_sol)
withdraw_bytes(amount) == <<2>> \o to_le_bytes(amount)

\* the index of a variant in the client's enum DepositInstruction
variant_index(op) ==
    CASE op = "Initialize" -> 0
      [] op = "Deposit" -> 1
      [] op = "Withdraw" -> 2

\* Instruction::new_with_borsh for a variant without fields: the Borsh
\* encoding of an enum is the one byte of its variant index
new_with_borsh(op) == <<variant_index(op)>>

\* call.direct when the instruction came without a transfer before it
NoDirect == 0 - 1

NoCall == [accs |-> <<>>, signer |-> FALSE, input |-> <<>>, direct |-> NoDirect]

NoOutcome == [res |-> "none", ev |-> <<>>, dirty |-> FALSE]

NoPrior == <<>>

\* the latest instruction was a successful Deposit and this one is a signed
\* Withdraw of the same amount by the same requester on the same target
undoes_deposit(accs, signer, input) ==
    /\ out.res = "Ok"
    /\ unpack(call.input).op = "Deposit"
    /\ signer
    /\ Len(accs) >= 2
    /\ accs[1] = call.accs[1]
    /\ accs[2] = call.accs[2]
    /\ unpack(input).err = "none"
    /\ unpack(input).op = "Withdraw"
    /\ unpack(input).amount = pre[call.accs[1]].lamports

NoNet == [a \in Ids |-> 0]

\* what instruction input with outcome o adds to the net of its target: the
\* amount of a successful Deposit, less the amount of a successful Withdraw
settled(st, accs, input, o) ==
    IF o.res # "Ok" THEN 0
    ELSE IF unpack(input).op = "Deposit" THEN deposit_amount(st[accs[1]])
    ELSE IF unpack(input).op = "Withdraw" THEN 0 - unpack(input).amount
    ELSE 0

NotDecoded == [err |-> "pending"]

\* the codec and the client at rest
NotSent == [op |-> "none", amount |-> 0]

CodecIdle == buf = <<>> /\ decoded = NotDecoded /\ sent = NotSent

ClientIdle ==
    /\ wallets = <<>>
    /\ handlers = {}
    /\ balances = <<>>
    /\ output = <<>>
    /\ gb_pc = "idle"
    /\ listed = 0

Init ==
    /\ CodecIdle
    /\ ClientIdle
    /\ \E s \in SlotGenesis :
         accounts = [a \in Ids |->
            CASE a = "u1" -> Account(SmallAmount, <<>>, SystemProgramId)
              [] a = "u2" -> Account(1, <<>>, SystemProgramId)
              [] a = "rich" -> Account(U64Max, <<>>, SystemProgramId)
              [] a = "slot" -> s
              [] OTHER -> Account(1, to_le_bytes(1), "other")]
    /\ genesis = accounts
    /\ pre = accounts
    /\ call = NoCall
    /\ out = NoOutcome
    /\ prior = NoPrior
    /\ net = NoNet

\* (variant: the working copy is committed whatever the result)
Execute_commit_always(accs, signer, input) ==
    \E o \in {process_instruction(accounts, accs, signer, input)} :
    /\ pre' = accounts
    /\ call' = [accs |-> accs, signer |-> signer, input |-> input,
                direct |-> NoDirect]
    /\ out' = [res |-> o.res, ev |-> o.ev, dirty |-> o.w # accounts]
    /\ accounts' = o.w
    /\ prior' = IF undoes_deposit(accs, signer, input) THEN pre ELSE NoPrior
    /\ net' = IF o.res = "Ok"
              THEN [net EXCEPT ![accs[2]] = @ + settled(accounts, accs, input, o)]
              ELSE net
    /\ UNCHANGED <<genesis, codecVars, clientVars>>

\* one instruction run by the host: the program works on a copy of the
\* accounts, which the host commits on Ok and discards on any failure
Execute(accs, signer, input) ==
    \E o \in {process_instruction(accounts, accs, signer, input)} :
    /\ pre' = accounts
    /\ call' = [accs |-> accs, signer |-> signer, input |-> input,
                direct |-> NoDirect]
    /\ out' = [res |-> o.res, ev |-> o.ev, dirty |-> o.w # accounts]
    /\ accounts' = IF o.res = "Ok" THEN o.w ELSE accounts
    /\ prior' = IF undoes_deposit(accs, signer, input) THEN pre ELSE NoPrior
    /\ net' = IF o.res = "Ok"
              THEN [net EXCEPT ![accs[2]] = @ + settled(accounts, accs, input, o)]
              ELSE net
    /\ UNCHANGED <<genesis, codecVars, clientVars>>

Initialize ==
    \E accs \in AccountLists : Execute(accs, TRUE, <<0>>)

Deposit ==
    \E accs \in AccountLists, signer \in BOOLEAN : Execute(accs, signer, <<1>>)

Withdraw ==
    \E accs \in AccountLists, signer \in BOOLEAN, amount \in Amounts :
        Execute(accs, signer, withdraw_bytes(amount))

Malformed ==
    \E input \in {<<>>, <<3>>, <<2>>, <<2, 1, 0, 0>>} :
        Execute(<<"u1", "slot", "sys">>, TRUE, input)

Next == Initialize \/ Deposit \/ Withdraw \/ Malformed

Spec == Init /\ [][Next]_vars

TypeOK ==
    /\ \A a \in Ids : accounts[a].lamports \in 0..U64Max
    /\ out.res \in {"none", "Ok", "Panic", "InvalidInstructionData",
                    "AccountAlreadyInitialized", "IncorrectProgramId",
                    "MissingRequiredSignature", "InsufficientFunds",
                    "ArithmeticOverflow", "NotEnoughAccountKeys",
                    "PrivilegeEscalation", "InvalidArgument",
                    "ExternalAccountLamportSpend", "Custom(1)"}

\* ------------------------------------------------------ reading a state
Called == out.res # "none"

Instr == unpack(call.input)

IsOp(o) == Called /\ Instr.err = "none" /\ Instr.op = o

Requester == call.accs[1]

Target == call.accs[2]

Initialized(acc) == Len(acc.data) >= U64Bytes

\* the instruction named the slots its handler reads and the target is a slot
\* of the program
Supplied(n) == Len(call.accs) >= n

\* ---------------------------------------------------------------- claims

\* C1: an Initialize that names an uninitialized (zero-length) slot owned by
\* the program succeeds and leaves the slot initialized with stored balance 0.
C1_FirstInitializeSucceeds ==
    (IsOp("Initialize") /\ Supplied(3)
       /\ pre[Target].data = <<>> /\ pre[Target].owner = ProgramId)
    => /\ out.res = "Ok"
       /\ Initialized(accounts[Target])
       /\ stored_balance(accounts[Target]) = 0

\* C2: an Initialize on a slot whose buffer is non-empty never succeeds and
\* changes no account, so a stored balance is never reset; when the three
\* slots the handler reads are supplied it fails with AccountAlreadyInitialized.
C2_InitializeOnceOnly ==
    (IsOp("Initialize") /\ Supplied(2) /\ Len(pre[Target].data) > 0)
    => /\ out.res # "Ok"
       /\ accounts = pre
       /\ Supplied(3) => out.res = "AccountAlreadyInitialized"

C2_Witness ==
    /\ IsOp("Initialize")
    /\ Supplied(3)
    /\ out.res = "AccountAlreadyInitialized"
    /\ pre[Target].owner = ProgramId
    /\ Initialized(accounts[Target])
    /\ stored_balance(accounts[Target]) > 0

\* C3: the stored balance never wraps below zero: a successful Withdraw leaves
\* exactly the old balance minus the amount, which is at least 0; a Withdraw
\* of more than the stored balance never succeeds and changes no account, and
\* once the owner and signer checks pass it fails with InsufficientFunds.
C3_NoNegativeBalance ==
    /\ (IsOp("Withdraw") /\ out.res = "Ok")
       => /\ Instr.amount <= stored_balance(pre[Target])
          /\ stored_balance(accounts[Target])
               = stored_balance(pre[Target]) - Instr.amount
    /\ (IsOp("Withdraw") /\ Supplied(2) /\ Initialized(pre[Target])
          /\ Instr.amount > stored_balance(pre[Target]))
       => /\ out.res # "Ok"
          /\ accounts = pre
          /\ (pre[Target].owner = ProgramId /\ call.signer)
               => out.res = "InsufficientFunds"

C3_Witness ==
    /\ IsOp("Withdraw")
    /\ out.res = "InsufficientFunds"
    /\ stored_balance(pre[Target]) > 0
    /\ Instr.amount > stored_balance(pre[Target])
    /\ pre[Target].lamports >= Instr.amount

\* C4: a Withdraw whose requester has not signed never succeeds and changes no
\* account, whatever the amount and the stored balance; on a slot of the
\* program it fails with MissingRequiredSignature.
C4_WithdrawNeedsSigner ==
    (IsOp("Withdraw") /\ Supplied(2) /\ ~call.signer)
    => /\ out.res # "Ok"
       /\ accounts = pre
       /\ pre[Target].owner = ProgramId => out.res = "MissingRequiredSignature"

C4_Witness ==
    /\ IsOp("Withdraw")
    /\ ~call.signer
    /\ out.res = "MissingRequiredSignature"
    /\ Initialized(pre[Target])
    /\ Instr.amount > 0
    /\ Instr.amount <= stored_balance(pre[Target])
    /\ Instr.amount <= pre[Target].lamports

\* C5: a Deposit whose sum stored balance + amount exceeds the u64 maximum
\* never succeeds and leaves the stored balance as it was; when the host
\* transfer itself goes through it fails with ArithmeticOverflow.
C5_DepositOverflowGuard ==
    (IsOp("Deposit") /\ Supplied(3) /\ pre[Target].owner = ProgramId
       /\ Initialized(pre[Target])
       /\ stored_balance(pre[Target]) + pre[Requester].lamports > U64Max)
    => /\ out.res # "Ok"
       /\ accounts[Target].data = pre[Target].data
       /\ "read_balance" \in {out.ev[i] : i \in 1..Len(out.ev)}
            => out.res = "ArithmeticOverflow"

C5_Witness ==
    /\ IsOp("Deposit")
    /\ out.res = "ArithmeticOverflow"
    /\ "read_balance" \in {out.ev[i] : i \in 1..Len(out.ev)}
    /\ pre[Requester].lamports > 0
    /\ stored_balance(pre[Target]) + pre[Requester].lamports > U64Max
    /\ out.dirty

C7_BalanceTracksNative ==
    \A s \in Slots :
      (genesis[s].owner = ProgramId /\ Initialized(genesis[s])
         /\ stored_balance(genesis[s]) = 0)
      => /\ stored_balance(accounts[s])
              = accounts[s].lamports - genesis[s].lamports
         /\ stored_balance(accounts[s]) <= accounts[s].lamports

\* C8: a successful Withdraw(amount) takes exactly amount off the target's
\* stored balance and off the target's native amount and adds exactly amount
\* to the requester's native amount.
C8_WithdrawMovesAmount ==
    (IsOp("Withdraw") /\ out.res = "Ok")
    => /\ stored_balance(accounts[Target])
            = stored_balance(pre[Target]) - Instr.amount
       /\ accounts[Target].lamports = pre[Target].lamports - Instr.amount
       /\ accounts[Requester].lamports = pre[Requester].lamports + Instr.amount

\* C9: a successful Deposit moves the depositor's whole native amount: the
\* depositor is left with 0, and the target's native amount and stored
\* balance both grow by exactly that amount.
C9_DepositSweeps ==
    (IsOp("Deposit") /\ out.res = "Ok")
    => /\ accounts[Requester].lamports = 0
       /\ accounts[Target].lamports
            = pre[Target].lamports + pre[Requester].lamports
       /\ stored_balance(accounts[Target])
            = stored_balance(pre[Target]) + pre[Requester].lamports

C9_Witness ==
    /\ IsOp("Deposit")
    /\ out.res = "Ok"
    /\ pre[Requester].lamports > 0
    /\ stored_balance(pre[Target]) > 0

\* C10: a signed Withdraw of D by the same requester right after a successful
\* Deposit of D succeeds and puts the stored balance and both native amounts
\* back to their values from before the Deposit.
C10_RoundTrip ==
    prior # NoPrior
    => /\ out.res = "Ok"
       /\ stored_balance(accounts[Target]) = stored_balance(prior[Target])
       /\ accounts[Target].lamports = prior[Target].lamports
       /\ accounts[Requester].lamports = prior[Requester].lamports

C10_Witness ==
    /\ prior # NoPrior
    /\ IsOp("Withdraw")
    /\ out.res = "Ok"
    /\ Instr.amount > 0
    /\ accounts[Requester].lamports = Instr.amount

\* C11: no Initialize, Deposit or Withdraw changes anything when its target
\* slot is not owned by the program; Deposit and Withdraw on such a slot fail
\* with IncorrectProgramId.
C11_ForeignSlotUntouched ==
    (Called /\ Instr.err = "none" /\ Supplied(2)
       /\ pre[Target].owner # ProgramId)
    => /\ out.res # "Ok"
       /\ accounts = pre
       /\ ~out.dirty
       /\ (Instr.op = "Withdraw" \/ (Instr.op = "Deposit" /\ Supplied(3)))
            => out.res = "IncorrectProgramId"

C11_Witness ==
    /\ IsOp("Withdraw")
    /\ out.res = "IncorrectProgramId"
    /\ call.signer
    /\ Initialized(pre[Target])
    /\ Instr.amount > 0
    /\ Instr.amount <= stored_balance(pre[Target])
    /\ Instr.amount <= pre[Target].lamports

\* the stages of a run that check a validator precondition and those that
\* change an account
Validations == {"check_empty", "check_owner", "check_signer"}

Mutations == {"transfer", "sub_lamports", "add_lamports", "write_balance"}

Events == {out.ev[i] : i \in 1..Len(out.ev)}

\* the validator preconditions of each operation
Required(op) ==
    CASE op = "Initialize" -> {"check_empty", "check_owner"}
      [] op = "Deposit" -> {"check_owner"}
      [] OTHER -> {"check_owner", "check_signer"}

\* C12: within one instruction decoding comes first and alone; every
\* validator check of the operation precedes the first mutation (host
\* transfer, native-amount change, stored-balance write); an instruction that
\* fails to decode, or fails a validator check, has touched no slot.
C12_StageOrder ==
    Called
    => /\ out.ev[1] = "decode"
       /\ \A i \in 2..Len(out.ev) : out.ev[i] # "decode"
       /\ Instr.err # "none"
            => (out.ev = <<"decode">> /\ ~out.dirty /\ accounts = pre)
       /\ \A i, j \in 1..Len(out.ev) :
            (out.ev[i] \in Validations /\ out.ev[j] \in Mutations) => i < j
       /\ (Instr.err = "none" /\ Events \cap Mutations # {})
            => Required(Instr.op) \subseteq Events
       /\ out.dirty => Events \cap Mutations # {}
       /\ out.res \in {"AccountAlreadyInitialized", "IncorrectProgramId",
                       "MissingRequiredSignature"} => ~out.dirty

C12_Witness ==
    /\ IsOp("Withdraw")
    /\ out.res = "Ok"
    /\ out.dirty
    /\ Instr.amount > 0
    /\ out.ev = <<"decode", "check_owner", "check_signer", "read_balance",
                  "check_funds", "sub_lamports", "add_lamports",
                  "write_balance">>

\* the error taxonomy of the program
Taxonomy ==
    {"InvalidInstructionData", "AccountAlreadyInitialized",
     "IncorrectProgramId", "MissingRequiredSignature", "InsufficientFunds",
     "ArithmeticOverflow"}

\* C13: every instruction ends either in success or in one of the six error
\* codes of the taxonomy, whatever the instruction bytes, the number of
\* supplied slots and the length of the target's buffer.
C13_SixCodesOnly ==
    Called => out.res \in Taxonomy \cup {"Ok"}

\* C16: no instruction shrinks or empties a buffer: a slot that was
\* initialized before an instruction is initialized after it, with a buffer
\* of the same length.
C16_LifecycleMonotonic ==
    \A a \in Ids :
      /\ Len(accounts[a].data) = Len(pre[a].data)
      /\ Initialized(pre[a]) => Initialized(accounts[a])
      /\ Initialized(genesis[a]) => Initialized(accounts[a])

C16_Witness ==
    /\ IsOp("Withdraw")
    /\ out.res = "Ok"
    /\ Len(pre[Target].data) > U64Bytes
    /\ accounts[Target].data # pre[Target].data
    /\ stored_balance(accounts[Target]) = 0

SlotUser == "u1"

C18_TransferBeforeWrite ==
    (IsOp("Deposit") /\ Supplied(3) /\ pre[Target].owner = ProgramId)
    => /\ \A i, j \in 1..Len(out.ev) :
            (out.ev[i] = "transfer" /\ out.ev[j] = "write_balance") => i < j
       /\ "write_balance" \in Events => "transfer" \in Events
       /\ LET t == system_transfer(pre, Requester, Target,
                                   pre[Requester].lamports, call.signer)
          IN t.err # "none"
             => /\ out.res = t.err
                /\ "write_balance" \notin Events
                /\ ~out.dirty
                /\ accounts = pre

C18_Witness ==
    /\ IsOp("Deposit")
    /\ out.res = "PrivilegeEscalation"
    /\ Events = {"decode", "check_owner", "transfer"}
    /\ pre[Target].owner = ProgramId
    /\ Initialized(pre[Target])
    /\ pre[Requester].lamports > 0

\* ------------------------------------------------- the codec on its own
\* the program at rest
IdleAccounts == [a \in Ids |-> Account(0, <<>>, SystemProgramId)]

ProgramIdle ==
    /\ accounts = IdleAccounts
    /\ genesis = IdleAccounts
    /\ pre = IdleAccounts
    /\ call = NoCall
    /\ out = NoOutcome
    /\ prior = NoPrior
    /\ net = NoNet

Bytes == 0..(ByteMod - 1)

\* every byte string of at most MaxShort bytes
ShortInputs ==
    UNION {[1..n -> Bytes] : n \in 0..MaxShort}

\* 8-byte payloads, and the same payloads cut to 7 bytes
Payloads ==
    {to_le_bytes(v) : v \in Amounts \cup {ByteMod, U64Max - 1}}

CutPayloads == {SubSeq(p, 1, U64Bytes - 1) : p \in Payloads}

Trailers == {<<>>, <<1>>, <<ByteMod - 1, 2>>}

\* a tag, a whole or cut payload, and bytes after it
LongInputs ==
    {<<tag>> \o p \o t : tag \in Bytes, p \in Payloads \cup CutPayloads,
                         t \in Trailers}

CodecInputs == ShortInputs \cup LongInputs

\* the amounts the client is asked to withdraw
WireAmounts ==
    (0..MaxWire) \cup Amounts
        \cup {Pow(ByteMod, k) : k \in 1..(U64Bytes - 1)} \cup {U64Max - 1}

\* the instructions the client sends
ClientInstructions ==
    {[op |-> "Initialize", amount |-> 0], [op |-> "Deposit", amount |-> 0]}
        \cup {[op |-> "Withdraw", amount |-> a] : a \in WireAmounts}

\* the instruction data the client builds: new_with_borsh for Initialize and
\* Deposit, the hand-written bytes of withdraw_sol for Withdraw
client_bytes(i) ==
    IF i.op = "Withdraw" THEN withdraw_bytes(i.amount) ELSE new_with_borsh(i.op)

\* the buffer is any byte string, or the bytes of a client instruction
InitCodec ==
    /\ ProgramIdle
    /\ ClientIdle
    /\ \/ buf \in CodecInputs /\ sent = NotSent
       \/ \E i \in ClientInstructions : sent = i /\ buf = client_bytes(i)
    /\ decoded = NotDecoded

\* DepositInstruction::unpack applied to the buffer
Decode ==
    /\ decoded = NotDecoded
    /\ decoded' = unpack(buf)
    /\ UNCHANGED <<buf, sent, programVars, clientVars>>

NextCodec == Decode

SpecCodec == InitCodec /\ [][NextCodec]_vars

\* C14: unpack is total and all-or-nothing: it returns Initialize, Deposit,
\* Withdraw{amount} or InvalidInstructionData, and InvalidInstructionData
\* exactly when the buffer is empty, its first byte is not 0, 1 or 2, or its
\* first byte is 2 and fewer than 8 bytes follow.
C14_DecodeTotal ==
    decoded # NotDecoded
    => /\ decoded.err \in {"none", "InvalidInstructionData"}
       /\ decoded.err = "InvalidInstructionData"
            <=> \/ Len(buf) = 0
                \/ buf[1] \notin {0, 1, 2}
                \/ (buf[1] = 2 /\ Len(buf) - 1 < 8)
       /\ decoded.err = "none"
            => /\ DOMAIN decoded = {"err", "op", "amount"}
               /\ decoded.amount \in 0..U64Max
               /\ decoded.op = CASE buf[1] = 0 -> "Initialize"
                                 [] buf[1] = 1 -> "Deposit"
                                 [] OTHER -> "Withdraw"

C14_Witness ==
    /\ decoded # NotDecoded
    /\ decoded.err = "InvalidInstructionData"
    /\ Len(buf) = U64Bytes
    /\ buf[1] = 2

\* the value of the 8 bytes after the tag, least significant byte first
PayloadValue(b) ==
    b[2] + b[3] * ByteMod + b[4] * Pow(ByteMod, 2) + b[5] * Pow(ByteMod, 3)
         + b[6] * Pow(ByteMod, 4) + b[7] * Pow(ByteMod, 5)
         + b[8] * Pow(ByteMod, 6) + b[9] * Pow(ByteMod, 7)

\* C15: a buffer with tag 2 and at least 8 more bytes decodes to Withdraw of
\* the little-endian value of the 8 bytes after the tag; the bytes after
\* those do not matter: the buffer decodes as its first 9 bytes do.
C15_WithdrawAmountLittleEndian ==
    (decoded # NotDecoded /\ Len(buf) >= U64Bytes + 1 /\ buf[1] = 2)
    => /\ decoded.err = "none"
       /\ decoded.op = "Withdraw"
       /\ decoded.amount = PayloadValue(buf)
       /\ decoded = unpack(SubSeq(buf, 1, U64Bytes + 1))

C15_Witness ==
    /\ decoded # NotDecoded
    /\ Len(buf) > U64Bytes + 1
    /\ buf[1] = 2
    /\ buf[U64Bytes + 2] # 0
    /\ decoded.err = "none"
    /\ decoded.amount = ByteMod

\* ---------------------------------------------- the client: get_balances
\* "let handlers_limit = 50"
handlers_limit == 50

\* (variant: the limit is compared with > instead of >=)
at_limit_strict(n) == n > handlers_limit

\* "if handlers.len() >= handlers_limit"
at_limit(n) == n >= handlers_limit

\* Vec::pop: the last element and the rest
Last(q) == q[Len(q)]

Front(q) == SubSeq(q, 1, Len(q) - 1)

\* the wallets of the file are numbered by their position in it
InitClient ==
    /\ ProgramIdle
    /\ CodecIdle
    /\ \E n \in 0..MaxWallets :
         /\ wallets = [i \in 1..n |-> i]
         /\ listed = n
    /\ handlers = {}
    /\ balances = <<>>
    /\ output = <<>>
    /\ gb_pc = "start"

\* "let first_wallet = wallets.pop().expect(..); handlers.push(..)"
GbFirst ==
    /\ gb_pc = "start"
    /\ IF wallets = <<>>
       THEN /\ gb_pc' = "panic"
            /\ UNCHANGED <<wallets, handlers>>
       ELSE /\ handlers' = handlers \cup {Last(wallets)}
            /\ wallets' = Front(wallets)
            /\ gb_pc' = "loop"
    /\ UNCHANGED <<balances, output, listed, programVars, codecVars>>

\* the loop body below the limit: pop the next wallet and push its query
GbPush ==
    /\ gb_pc = "loop"
    /\ wallets # <<>>
    /\ ~at_limit(Cardinality(handlers))
    /\ handlers' = handlers \cup {Last(wallets)}
    /\ wallets' = Front(wallets)
    /\ UNCHANGED <<balances, output, gb_pc, listed, programVars, codecVars>>

\* the loop body at the limit: await whichever query completes next and keep
\* its balance
GbCollect ==
    /\ gb_pc = "loop"
    /\ wallets # <<>>
    /\ at_limit(Cardinality(handlers))
    /\ \E h \in handlers :
         /\ handlers' = handlers \ {h}
         /\ balances' = Append(balances, h)
    /\ UNCHANGED <<wallets, output, gb_pc, listed, programVars, codecVars>>

\* the query that completes next has failed: `?` returns its error
GbCollectErr ==
    /\ gb_pc = "loop"
    /\ wallets # <<>>
    /\ at_limit(Cardinality(handlers))
    /\ gb_pc' = "failed"
    /\ UNCHANGED <<wallets, handlers, balances, output, listed,
                   programVars, codecVars>>

\* after the loop: print the collected balances and write balances.yaml
GbWrite ==
    /\ gb_pc = "loop"
    /\ wallets = <<>>
    /\ output' = balances
    /\ gb_pc' = "done"
    /\ UNCHANGED <<wallets, handlers, balances, listed, programVars, codecVars>>

NextClient == GbFirst \/ GbPush \/ GbCollect \/ GbCollectErr \/ GbWrite

SpecClient == InitClient /\ [][NextClient]_vars

\* C19: when get_balances finishes successfully on a list of N wallets, the
\* balances written to the output are exactly N, one per wallet of the list.
C19_AllBalancesCollected ==
    gb_pc = "done"
    => /\ Len(output) = listed
       /\ {output[i] : i \in 1..Len(output)} = 1..listed

\* C20: at every point of get_balances at most handlers_limit queries are
\* pushed and not yet collected, whatever the length of the list.
C20_InFlightCapped ==
    Cardinality(handlers) <= handlers_limit

C20_Witness ==
    /\ gb_pc = "loop"
    /\ listed > handlers_limit
    /\ Cardinality(handlers) = handlers_limit
    /\ wallets # <<>>
    /\ Len(balances) > 0

\* -------------------------------------------- the client: batch_transfer
\* wallets holds the pairs of the file, handlers the transfers pushed,
\* output the results try_collect returned
InitTransfer ==
    /\ ProgramIdle
    /\ CodecIdle
    /\ \E n \in 0..MaxWallets :
         /\ wallets = [i \in 1..n |-> i]
         /\ listed = n
    /\ handlers = {}
    /\ balances = <<>>
    /\ output = <<>>
    /\ gb_pc = "bt_push"

\* "for wallets in wallets_pairs { handlers.push(single_transfer(..)) }":
\* the pairs are taken in file order
BtPush ==
    /\ gb_pc = "bt_push"
    /\ wallets # <<>>
    /\ handlers' = handlers \cup {Head(wallets)}
    /\ wallets' = Tail(wallets)
    /\ UNCHANGED <<balances, output, gb_pc, listed, programVars, codecVars>>

\* "handlers.try_collect().await": every pushed transfer is polled, so all
\* of them are in flight at once
BtAwait ==
    /\ gb_pc = "bt_push"
    /\ wallets = <<>>
    /\ gb_pc' = "bt_await"
    /\ UNCHANGED <<wallets, handlers, balances, output, listed,
                   programVars, codecVars>>

\* the sequence 1..n, and the sequence n..1
Ascending(n) == [i \in 1..n |-> i]

Descending(n) == [i \in 1..n |-> n + 1 - i]

\* all transfers succeed: the results come in completion order, here the
\* order of the file or its reverse
BtCollect ==
    /\ gb_pc = "bt_await"
    /\ \E order \in {Ascending(listed), Descending(listed)} : output' = order
    /\ handlers' = {}
    /\ gb_pc' = "done"
    /\ UNCHANGED <<wallets, balances, listed, programVars, codecVars>>

\* one transfer fails: try_collect returns its error and drops the rest
BtCollectErr ==
    /\ gb_pc = "bt_await"
    /\ handlers # {}
    /\ handlers' = {}
    /\ gb_pc' = "failed"
    /\ UNCHANGED <<wallets, balances, output, listed, programVars, codecVars>>

NextTransfer == BtPush \/ BtAwait \/ BtCollect \/ BtCollectErr

SpecTransfer == InitTransfer /\ [][NextTransfer]_vars

\* C21: during batch_transfer the number of transfers in flight never
\* exceeds a fixed bound (the client's limit of 50 concurrent requests),
\* however many pairs the file lists.
C21_TransfersCapped ==
    gb_pc = "bt_await" => Cardinality(handlers) <= handlers_limit

\* ------------------------------------------------- interleaved callers
\* two successful Withdraws on the same target in a row
TwoWithdraws ==
    /\ IsOp("Withdraw")
    /\ out.res = "Ok"
    /\ unpack(call'.input).err = "none"
    /\ unpack(call'.input).op = "Withdraw"
    /\ out'.res = "Ok"
    /\ call'.accs[2] = Target

\* C22: whatever Deposits and Withdraws the requesters interleave on a slot,
\* the successful Withdraws never sum to more than the slot's stored balance
\* at the start plus the successful Deposits; and two Withdraws in a row
\* that both succeed together ask no more than the balance before the first.
C22_NoDoubleSpend ==
    /\ [](\A t \in Ids :
            Initialized(genesis[t]) => stored_balance(genesis[t]) + net[t] >= 0)
    /\ [][TwoWithdraws =>
            Instr.amount + unpack(call'.input).amount
              <= stored_balance(pre[Target])]_vars

\* another requester withdraws the last of what the first one deposited
C22_Witness ==
    /\ IsOp("Withdraw")
    /\ out.res = "Ok"
    /\ Requester = "u2"
    /\ Target = "slot"
    /\ stored_balance(genesis["slot"]) = 0
    /\ net["slot"] = 0
    /\ stored_balance(accounts["slot"]) = 0
    /\ accounts["u2"].lamports > genesis["u2"].lamports
    /\ accounts["u1"].lamports < genesis["u1"].lamports

\* ------------------------------------------------ the uninitialized slot
\* the latest instruction named a target that was a slot of the program with
\* a zero-length buffer
OnUninitialized ==
    /\ Supplied(2)
    /\ pre[Target].owner = ProgramId
    /\ pre[Target].data = <<>>

\* C23: a Deposit or a Withdraw on an uninitialized slot (zero-length
\* buffer, owned by the program) never succeeds: the caller gets a failure,
\* the slot stays uninitialized and no native amount changes.
C23_NoTransitionOutOfUninitialized ==
    ((IsOp("Deposit") \/ IsOp("Withdraw")) /\ OnUninitialized) =>
        /\ out.res \notin {"Ok", "none"}
        /\ accounts[Target].data = <<>>
        /\ \A a \in Ids : accounts[a] = pre[a]

\* a signed Deposit on the uninitialized slot: the transfer was made in the
\* working copy, the read of the balance aborted, and nothing was kept
C23_Witness ==
    /\ IsOp("Deposit")
    /\ OnUninitialized
    /\ call.signer
    /\ out.res = "Panic"
    /\ out.dirty
    /\ accounts = pre

\* ------------------------------------------- the client: deposit_sol
Payers == {"u1", "u2"}

\* the transaction of deposit_sol for amount lamports: a system transfer of
\* amount from the payer to the slot, then the program's Deposit on
\* [payer, slot, system program], the payer signing; the host keeps the
\* effects of both instructions or of neither
DepositSol ==
    \E payer \in Payers, amount \in Amounts \ {U64Max} :
    \E t \in {system_transfer(accounts, payer, "slot", amount, TRUE)} :
    \E accs \in {<<payer, "slot", "sys">>} :
    \E o \in {IF t.err # "none"
              THEN Outcome(t.err, accounts, <<>>)
              ELSE process_instruction(t.w, accs, TRUE,
                                       new_with_borsh("Deposit"))} :
    /\ pre' = accounts
    /\ call' = [accs |-> accs, signer |-> TRUE,
                input |-> new_with_borsh("Deposit"), direct |-> amount]
    /\ out' = [res |-> o.res, ev |-> o.ev, dirty |-> o.w # accounts]
    /\ accounts' = IF o.res = "Ok" THEN o.w ELSE accounts
    /\ prior' = NoPrior
    /\ net' = IF o.res = "Ok"
              THEN [net EXCEPT !["slot"] =
                        @ + settled(t.w, accs, new_with_borsh("Deposit"), o)]
              ELSE net
    /\ UNCHANGED <<genesis, codecVars, clientVars>>

\* what the depository client and other callers do to the program
NextDepository == Initialize \/ DepositSol \/ Withdraw

\* the client works on a slot whose stored balance leaves room to deposit
InitDepository ==
    /\ Init
    /\ Initialized(accounts["slot"]) =>
         stored_balance(accounts["slot"]) < U64Max

SpecDepository == InitDepository /\ [][NextDepository]_vars

\* the latest transaction was a deposit_sol that succeeded
DepositSolDone ==
    /\ IsOp("Deposit")
    /\ call.direct # NoDirect
    /\ out.res = "Ok"

\* C24: after a successful deposit_sol for A lamports the slot's stored
\* balance and the slot's native amount have both grown by exactly A.
C24_ClientDepositCredits ==
    DepositSolDone =>
        /\ stored_balance(accounts[Target]) =
             stored_balance(pre[Target]) + call.direct
        /\ accounts[Target].lamports = pre[Target].lamports + call.direct

\* what deposit_sol does: the Deposit sweeps what the transfer left with the
\* payer, so the stored balance grows by the rest and the native amount by
\* all the payer had
DepositSolSweeps ==
    DepositSolDone =>
        /\ stored_balance(accounts[Target]) =
             stored_balance(pre[Target]) + pre[Requester].lamports - call.direct
        /\ accounts[Target].lamports =
             pre[Target].lamports + pre[Requester].lamports
        /\ accounts[Requester].lamports = 0

\* ------------------------------------------------- precedence of errors
\* what the checks of the latest Withdraw found in the accounts it was given
OwnerPasses == pre[Target].owner = ProgramId

SignerPasses == call.signer

FundsPass ==
    /\ Initialized(pre[Target])
    /\ Instr.amount <= stored_balance(pre[Target])

\* C25: Withdraw reports its errors in a fixed order: a wrong owner gives
\* IncorrectProgramId whatever the signer and the amount; with the right
\* owner a requester that did not sign gives MissingRequiredSignature
\* whatever the amount; InsufficientFunds comes only when owner and signer
\* pass, and ArithmeticOverflow only when owner, signer and funds pass.
C25_WithdrawErrorPrecedence ==
    (IsOp("Withdraw") /\ Supplied(2)) =>
        /\ ~OwnerPasses => out.res = "IncorrectProgramId"
        /\ (OwnerPasses /\ ~SignerPasses) =>
              out.res = "MissingRequiredSignature"
        /\ out.res = "InsufficientFunds" =>
              (OwnerPasses /\ SignerPasses /\ ~FundsPass)
        /\ out.res = "ArithmeticOverflow" =>
              (OwnerPasses /\ SignerPasses /\ FundsPass)

\* all three checks would fail and the owner's is the one reported
C25_Witness ==
    /\ IsOp("Withdraw")
    /\ Supplied(2)
    /\ ~OwnerPasses
    /\ ~SignerPasses
    /\ ~FundsPass
    /\ out.res = "IncorrectProgramId"

\* ------------------------------------------------------------- the frame
\* the bytes of a buffer from index 8 on
Reserved(data) == SubSeq(data, U64Bytes + 1, Len(data))

\* the accounts the latest instruction was given
Passed == {call.accs[i] : i \in 1..Len(call.accs)}

\* C26: an instruction changes at most the first 8 bytes of its target's
\* buffer and the native amounts of its requester and its target: the
\* bytes from index 8 on, the length of every buffer, the requester's
\* buffer, every owner and every account it was not given stay as they
\* were; and a buffer changes only in a successful Initialize, Deposit or
\* Withdraw.
C26_Frame ==
    Called =>
        \A a \in Ids :
            /\ accounts[a].owner = pre[a].owner
            /\ Len(accounts[a].data) = Len(pre[a].data)
            /\ Reserved(accounts[a].data) = Reserved(pre[a].data)
            /\ a \notin Passed => accounts[a] = pre[a]
            /\ accounts[a].lamports # pre[a].lamports =>
                  (Supplied(2) /\ a \in {Requester, Target})
            /\ accounts[a].data # pre[a].data =>
                  /\ Supplied(2)
                  /\ a = Target
                  /\ out.res = "Ok"
                  /\ IsOp("Initialize") \/ IsOp("Deposit") \/ IsOp("Withdraw")

\* a successful Deposit on a slot of 9 bytes: the balance changed, the
\* ninth byte did not
C26_Witness ==
    /\ IsOp("Deposit")
    /\ out.res = "Ok"
    /\ Len(pre[Target].data) > U64Bytes
    /\ stored_balance(accounts[Target]) # stored_balance(pre[Target])
    /\ Reserved(accounts[Target].data) = Reserved(pre[Target].data)
    /\ Reserved(accounts[Target].data) # <<>>
    /\ accounts["u2"] = pre["u2"]

\* ----------------------------------------------- client to program bytes
\* C27: the bytes the client builds for Initialize, for Deposit and for
\* Withdraw of any amount are decoded by unpack to the same instruction with
\* the same amount.
C27_WireRoundTrip ==
    (sent # NotSent /\ decoded # NotDecoded) =>
        /\ decoded.err = "none"
        /\ decoded.op = sent.op
        /\ decoded.amount = sent.amount

\* a Withdraw of an amount whose bytes differ read backwards, and a Deposit
C27_Witness ==
    /\ sent.op = "Withdraw"
    /\ sent.amount = U64Max - 1
    /\ Len(buf) = U64Bytes + 1
    /\ decoded # NotDecoded
    /\ decoded.op = "Withdraw"
    /\ decoded.amount = U64Max - 1

\* ------------------------------------------- the overflows of Withdraw
\* the latest instruction was a Withdraw that returned ArithmeticOverflow
\* after passing the check of the amount against the stored balance
WithdrawOverflowed ==
    /\ IsOp("Withdraw")
    /\ out.res = "ArithmeticOverflow"
    /\ "check_funds" \in Events

\* the requester's native amount when the amount is added to it: that of the
\* target already debited when requester and target are one account
RequesterBeforeCredit ==
    IF Requester = Target
    THEN pre[Target].lamports - Instr.amount
    ELSE pre[Requester].lamports

\* C28: in Withdraw, once amount <= stored balance has passed,
\* ArithmeticOverflow comes from the debit of the target's native amount
\* (native amount < amount) or from the credit of the requester's native
\* amount (sum above the 64-bit maximum), never from stored balance - amount.
C28_BalanceDebitNeverFails ==
    WithdrawOverflowed =>
        /\ Instr.amount <= stored_balance(pre[Target])
        /\ "add_lamports" \notin Events
        /\ \/ /\ "sub_lamports" \notin Events
              /\ pre[Target].lamports < Instr.amount
           \/ /\ "sub_lamports" \in Events
              /\ pre[Target].lamports >= Instr.amount
              /\ RequesterBeforeCredit + Instr.amount > U64Max

\* the credit of the requester overflowed, after the debit of the target
C28_Witness ==
    /\ WithdrawOverflowed
    /\ "sub_lamports" \in Events
    /\ Instr.amount >= 1
    /\ Instr.amount <= stored_balance(pre[Target])
    /\ accounts = pre

====
